---- MODULE Spec2Model ----
(***************************************************************************)
(* A model of uelogparser.Parser (src/uelogparser/parser.py): the          *)
(* constructor's scan for the timezone announcement and read(), which      *)
(* returns one Log per header line with its continuation lines folded in.  *)
(*                                                                         *)
(* Text is modelled character by character: a str is a sequence of         *)
(* one-character strings, a line as returned by readline() ends with "\n"  *)
(* unless it is the unterminated last line of the file, and readline() at  *)
(* the end of the file returns the empty sequence.  The file position      *)
(* (tell/seek) is the index of the next line to be read: the code only     *)
(* ever moves it by readline() and by seek() to a value tell() returned,   *)
(* so it is always on a line boundary.                                     *)
(***************************************************************************)
EXTENDS Integers, Sequences, FiniteSets, TLC

\* ------------------------------------------------------------------ text

Digits == {"0", "1", "2", "3", "4", "5", "6", "7", "8", "9"}

\* \d of the re module, on the ASCII characters of the model's alphabet.
IsDigit(c) == c \in Digits

\* \s of the re module, on the ASCII characters of the model's alphabet.
IsSpace(c) == c \in {" ", "\t", "\n", "\r", "\f"}

DigitVal(c) ==
    CASE c = "0" -> 0 [] c = "1" -> 1 [] c = "2" -> 2 [] c = "3" -> 3
      [] c = "4" -> 4 [] c = "5" -> 5 [] c = "6" -> 6 [] c = "7" -> 7
      [] c = "8" -> 8 [] c = "9" -> 9

\* s[i:] of Python, with 1-based i.
Tail_(s, i) == SubSeq(s, i, Len(s))

\* Whether the str w occurs in s at (1-based) position p.
OccursAt(s, w, p) ==
    /\ p >= 1
    /\ p + Len(w) - 1 <= Len(s)
    /\ \A k \in 1..Len(w) : s[p + k - 1] = w[k]

\* `w in s` of Python.
Contains(s, w) == \E p \in 1..(Len(s) + 1) : OccursAt(s, w, p)

\* The position after the longest run of digits of s that starts at p
\* (p itself when s[p] is no digit): what a greedy \d* consumes.
RECURSIVE DigitsEnd(_, _)
DigitsEnd(s, p) ==
    IF p <= Len(s) /\ IsDigit(s[p]) THEN DigitsEnd(s, p + 1) ELSE p

\* A frame field of digits alone, \d+ in place of [\s\d]+.
DigitsOnlyEnd(s, p) == DigitsEnd(s, p)

\* The same as DigitsEnd for [\s\d]*.
RECURSIVE SpaceDigitsEnd(_, _)
SpaceDigitsEnd(s, p) ==
    IF p <= Len(s) /\ (IsSpace(s[p]) \/ IsDigit(s[p]))
    THEN SpaceDigitsEnd(s, p + 1) ELSE p

\* The same for \s*.
RECURSIVE SpacesEnd(_, _)
SpacesEnd(s, p) ==
    IF p <= Len(s) /\ IsSpace(s[p]) THEN SpacesEnd(s, p + 1) ELSE p

\* The same for [^:]*.
RECURSIVE NotColonEnd(_, _)
NotColonEnd(s, p) ==
    IF p <= Len(s) /\ s[p] # ":" THEN NotColonEnd(s, p + 1) ELSE p

\* The same for .* (any character but a line break).
RECURSIVE DotEnd(_, _)
DotEnd(s, p) ==
    IF p <= Len(s) /\ s[p] # "\n" THEN DotEnd(s, p + 1) ELSE p

NotLineBreak(c) == c # "\n"

\* str.replace('\n', ''): every line break of s removed.
StripNewlines(s) == SelectSeq(s, NotLineBreak)

\* The value of a non-empty run of digits.
RECURSIVE DigitsValue(_)
DigitsValue(ds) ==
    IF ds = <<>> THEN 0
    ELSE 10 * DigitsValue(SubSeq(ds, 1, Len(ds) - 1)) + DigitVal(ds[Len(ds)])

\* s.strip(): leading and trailing whitespace removed.
RECURSIVE Strip(_)
Strip(s) ==
    IF s = <<>> THEN s
    ELSE IF IsSpace(Head(s)) THEN Strip(Tail(s))
    ELSE IF IsSpace(s[Len(s)]) THEN Strip(SubSeq(s, 1, Len(s) - 1))
    ELSE s

\* int(s): surrounding whitespace and one sign are accepted, then digits only;
\* anything else is a ValueError (ok = FALSE).
int(s) ==
    LET t == Strip(s)
        signed == t # <<>> /\ Head(t) \in {"+", "-"}
        ds == IF signed THEN Tail(t) ELSE t
        good == ds # <<>> /\ \A k \in 1..Len(ds) : IsDigit(ds[k])
    IN  IF ~good THEN [ok |-> FALSE, val |-> 0]
        ELSE [ok |-> TRUE,
              val |-> IF signed /\ Head(t) = "-" THEN 0 - DigitsValue(ds)
                      ELSE DigitsValue(ds)]

Max(S) == CHOOSE x \in S : \A y \in S : y <= x

\* s[p] = c, false beyond the end of s.
At(s, p, c) == p >= 1 /\ p <= Len(s) /\ s[p] = c

\* ------------------------------------------------------------ the inputs

\* the announcement of the sample log, parser.py line 52:
\*   LogICU: ICU TimeZone Detection - Raw Offset: +9:00, Platform Override: ''
LineTz ==
    <<"L","o","g","I","C","U",":"," ","I","C","U"," ","T","i","m","e","Z","o","n","e"," ","D","e","t","e","c","t","i","o","n"," ","-"," ","R","a","w"," ","O","f","f","s","e","t",":"," ","+","9",":","0","0",","," ","P","l","a","t","f","o","r","m"," ","O","v","e","r","r","i","d","e",":"," ","'","'">>

\* a second announcement, with a negative hour and minutes:
\*   TimeZone Detection - Raw Offset: -3:30,
LineTzNeg ==
    <<"T","i","m","e","Z","o","n","e"," ","D","e","t","e","c","t","i","o","n"," ","-"," ","R","a","w"," ","O","f","f","s","e","t",":"," ","-","3",":","3","0",",">>

\* a header with a category and no verbosity:
\*   [2020.12.14-13.46.03:809][  1]LogTemp: a
LineLog ==
    <<"[","2","0","2","0",".","1","2",".","1","4","-","1","3",".","4","6",".","0","3",":","8","0","9","]","["," "," ","1","]","L","o","g","T","e","m","p",":"," ","a">>

\* a header with a category and a verbosity:
\*   [2020.12.14-13.46.04:819][  2]Cat: Warning: b
LineWarning ==
    <<"[","2","0","2","0",".","1","2",".","1","4","-","1","3",".","4","6",".","0","4",":","8","1","9","]","["," "," ","2","]","C","a","t",":"," ","W","a","r","n","i","n","g",":"," ","b">>

\* header-shaped, no category separator (the last line of the test's sample):
\*   [2020.12.14-13.46.08:859][  6]NoneCategory,V
LineNoCategory ==
    <<"[","2","0","2","0",".","1","2",".","1","4","-","1","3",".","4","6",".","0","8",":","8","5","9","]","["," "," ","6","]","N","o","n","e","C","a","t","e","g","o","r","y",",","V">>

\* header-shaped with a category, month 13:
\*   [2020.13.14-13.46.09:869][  7]LogTemp: c
LineBadMonth ==
    <<"[","2","0","2","0",".","1","3",".","1","4","-","1","3",".","4","6",".","0","9",":","8","6","9","]","["," "," ","7","]","L","o","g","T","e","m","p",":"," ","c">>

\* header-shaped without a category, 29 February of a common year:
\*   [2021.02.29-13.46.10:879][  8]Closing,file
LineBadDayNoCategory ==
    <<"[","2","0","2","1",".","0","2",".","2","9","-","1","3",".","4","6",".","1","0",":","8","7","9","]","["," "," ","8","]","C","l","o","s","i","n","g",",","f","i","l","e">>

\* a line of text:
\*   d e
LineText ==
    <<"d"," ","e">>

\* an empty line:
\*   
LineEmpty ==
    <<>>

\* the timestamp and frame number of the headers below:
\*   [2020.12.14-13.46.03:809][  1]
StdStamp ==
    <<"[","2","0","2","0",".","1","2",".","1","4","-","1","3",".","4","6",".","0","3",":","8","0","9","]","["," "," ","1","]">>

\* The lines a file is made of, by name; Text gives the characters of each.
Lines ==
    {"Tz", "TzNeg", "Log", "Warning", "NoCategory", "BadMonth",
     "BadDayNoCategory", "Text", "Empty"}

Text(name) ==
    CASE name = "Tz" -> LineTz
      [] name = "TzNeg" -> LineTzNeg
      [] name = "Log" -> LineLog
      [] name = "Warning" -> LineWarning
      [] name = "NoCategory" -> LineNoCategory
      [] name = "BadMonth" -> LineBadMonth
      [] name = "BadDayNoCategory" -> LineBadDayNoCategory
      [] name = "Text" -> LineText
      [] name = "Empty" -> LineEmpty
      [] name = "marked none" ->
           \* ICU TimeZone Detection - 
           <<"I","C","U"," ","T","i","m","e","Z","o","n","e"," ","D","e","t","e","c","t","i","o","n"," ","-"," ">>
      [] name = "marked +9:00" ->
           \* ICU TimeZone Detection - Raw Offset: +9:00,
           <<"I","C","U"," ","T","i","m","e","Z","o","n","e"," ","D","e","t","e","c","t","i","o","n"," ","-"," ","R","a","w"," ","O","f","f","s","e","t",":"," ","+","9",":","0","0",",">>
      [] name = "marked -3:30" ->
           \* ICU TimeZone Detection - Raw Offset: -3:30,
           <<"I","C","U"," ","T","i","m","e","Z","o","n","e"," ","D","e","t","e","c","t","i","o","n"," ","-"," ","R","a","w"," ","O","f","f","s","e","t",":"," ","-","3",":","3","0",",">>
      [] name = "marked -0:30" ->
           \* ICU TimeZone Detection - Raw Offset:-0:30
           <<"I","C","U"," ","T","i","m","e","Z","o","n","e"," ","D","e","t","e","c","t","i","o","n"," ","-"," ","R","a","w"," ","O","f","f","s","e","t",":","-","0",":","3","0">>
      [] name = "marked 5:45" ->
           \* ICU TimeZone Detection - Raw Offset: 5:45, x
           <<"I","C","U"," ","T","i","m","e","Z","o","n","e"," ","D","e","t","e","c","t","i","o","n"," ","-"," ","R","a","w"," ","O","f","f","s","e","t",":"," ","5",":","4","5",","," ","x">>
      [] name = "marked +24:00" ->
           \* ICU TimeZone Detection - Raw Offset: +24:00,
           <<"I","C","U"," ","T","i","m","e","Z","o","n","e"," ","D","e","t","e","c","t","i","o","n"," ","-"," ","R","a","w"," ","O","f","f","s","e","t",":"," ","+","2","4",":","0","0",",">>
      [] name = "unmarked none" ->
           \* ICU - 
           <<"I","C","U"," ","-"," ">>
      [] name = "unmarked +9:00" ->
           \* ICU - Raw Offset: +9:00,
           <<"I","C","U"," ","-"," ","R","a","w"," ","O","f","f","s","e","t",":"," ","+","9",":","0","0",",">>
      [] name = "unmarked -3:30" ->
           \* ICU - Raw Offset: -3:30,
           <<"I","C","U"," ","-"," ","R","a","w"," ","O","f","f","s","e","t",":"," ","-","3",":","3","0",",">>
      [] name = "unmarked -0:30" ->
           \* ICU - Raw Offset:-0:30
           <<"I","C","U"," ","-"," ","R","a","w"," ","O","f","f","s","e","t",":","-","0",":","3","0">>
      [] name = "unmarked 5:45" ->
           \* ICU - Raw Offset: 5:45, x
           <<"I","C","U"," ","-"," ","R","a","w"," ","O","f","f","s","e","t",":"," ","5",":","4","5",","," ","x">>
      [] name = "unmarked +24:00" ->
           \* ICU - Raw Offset: +24:00,
           <<"I","C","U"," ","-"," ","R","a","w"," ","O","f","f","s","e","t",":"," ","+","2","4",":","0","0",",">>
      [] name = "after none" ->
           \*  TimeZone Detection
           <<" ","T","i","m","e","Z","o","n","e"," ","D","e","t","e","c","t","i","o","n">>
      [] name = "after +9:00" ->
           \* Raw Offset: +9:00, TimeZone Detection
           <<"R","a","w"," ","O","f","f","s","e","t",":"," ","+","9",":","0","0",","," ","T","i","m","e","Z","o","n","e"," ","D","e","t","e","c","t","i","o","n">>
      [] name = "after -3:30" ->
           \* Raw Offset: -3:30, TimeZone Detection
           <<"R","a","w"," ","O","f","f","s","e","t",":"," ","-","3",":","3","0",","," ","T","i","m","e","Z","o","n","e"," ","D","e","t","e","c","t","i","o","n">>
      [] name = "after -0:30" ->
           \* Raw Offset:-0:30 TimeZone Detection
           <<"R","a","w"," ","O","f","f","s","e","t",":","-","0",":","3","0"," ","T","i","m","e","Z","o","n","e"," ","D","e","t","e","c","t","i","o","n">>
      [] name = "after 5:45" ->
           \* Raw Offset: 5:45, x TimeZone Detection
           <<"R","a","w"," ","O","f","f","s","e","t",":"," ","5",":","4","5",","," ","x"," ","T","i","m","e","Z","o","n","e"," ","D","e","t","e","c","t","i","o","n">>
      [] name = "after +24:00" ->
           \* Raw Offset: +24:00, TimeZone Detection
           <<"R","a","w"," ","O","f","f","s","e","t",":"," ","+","2","4",":","0","0",","," ","T","i","m","e","Z","o","n","e"," ","D","e","t","e","c","t","i","o","n">>
      [] name = "A:B: c" ->
           StdStamp \o <<"A",":","B",":"," ","c">>
      [] name = "Cat: " ->
           StdStamp \o <<"C","a","t",":"," ">>
      [] name = "Cat:  x" ->
           StdStamp \o <<"C","a","t",":"," "," ","x">>
      [] name = "Cat:\tx" ->
           StdStamp \o <<"C","a","t",":","\t","x">>
      [] name = "A B: c: d" ->
           StdStamp \o <<"A"," ","B",":"," ","c",":"," ","d">>
      [] name = ": x" ->
           StdStamp \o <<":"," ","x">>
      [] name = "Cat:x" ->
           StdStamp \o <<"C","a","t",":","x">>
      [] name = "Cat: Warning: " ->
           StdStamp \o <<"C","a","t",":"," ","W","a","r","n","i","n","g",":"," ">>
      [] name = "Cat: Warning:  x" ->
           StdStamp \o <<"C","a","t",":"," ","W","a","r","n","i","n","g",":"," "," ","x">>
      [] name = "Cat: Error: e" ->
           StdStamp \o <<"C","a","t",":"," ","E","r","r","o","r",":"," ","e">>
      [] name = "Cat: Display: a: b" ->
           StdStamp \o <<"C","a","t",":"," ","D","i","s","p","l","a","y",":"," ","a",":"," ","b">>
      [] name = "Cat: Warning:x" ->
           StdStamp \o <<"C","a","t",":"," ","W","a","r","n","i","n","g",":","x">>
      [] name = "Cat: Warnings: x" ->
           StdStamp \o <<"C","a","t",":"," ","W","a","r","n","i","n","g","s",":"," ","x">>
      [] name = "Cat: x Warning: y" ->
           StdStamp \o <<"C","a","t",":"," ","x"," ","W","a","r","n","i","n","g",":"," ","y">>
      [] name = "[2020.1.2-3.4.5:6][1]Cat: x" ->
           <<"[","2","0","2","0",".","1",".","2","-","3",".","4",".","5",":","6","]","[","1","]","C","a","t",":"," ","x">>
      [] name = "[20.12.14-13.46.03:809][1]Cat: x" ->
           <<"[","2","0",".","1","2",".","1","4","-","1","3",".","4","6",".","0","3",":","8","0","9","]","[","1","]","C","a","t",":"," ","x">>
      [] name = "[2020.012.014-013.046.003:0809][1]Cat: x" ->
           <<"[","2","0","2","0",".","0","1","2",".","0","1","4","-","0","1","3",".","0","4","6",".","0","0","3",":","0","8","0","9","]","[","1","]","C","a","t",":"," ","x">>
      [] name = "[2020.12.14-13.46.03:8090][1]Cat: x" ->
           <<"[","2","0","2","0",".","1","2",".","1","4","-","1","3",".","4","6",".","0","3",":","8","0","9","0","]","[","1","]","C","a","t",":"," ","x">>
      [] name = "[2020.12.14-13.46.03:809][]Cat: x" ->
           <<"[","2","0","2","0",".","1","2",".","1","4","-","1","3",".","4","6",".","0","3",":","8","0","9","]","[","]","C","a","t",":"," ","x">>
      [] name = "[2020.12.14-13.46.03:809][ a]Cat: x" ->
           <<"[","2","0","2","0",".","1","2",".","1","4","-","1","3",".","4","6",".","0","3",":","8","0","9","]","["," ","a","]","C","a","t",":"," ","x">>
      [] name = "[2020.12.14-13.46.03:809][\t 1 ]Cat: x" ->
           <<"[","2","0","2","0",".","1","2",".","1","4","-","1","3",".","4","6",".","0","3",":","8","0","9","]","[","\t"," ","1"," ","]","C","a","t",":"," ","x">>
      [] name = " [2020.12.14-13.46.03:809][1]Cat: x" ->
           <<" ","[","2","0","2","0",".","1","2",".","1","4","-","1","3",".","4","6",".","0","3",":","8","0","9","]","[","1","]","C","a","t",":"," ","x">>
      [] name = "[2020.12.14 13.46.03:809][1]Cat: x" ->
           <<"[","2","0","2","0",".","1","2",".","1","4"," ","1","3",".","4","6",".","0","3",":","8","0","9","]","[","1","]","C","a","t",":"," ","x">>
      [] name = "[2020.12.14-13.46.03.809][1]Cat: x" ->
           <<"[","2","0","2","0",".","1","2",".","1","4","-","1","3",".","4","6",".","0","3",".","8","0","9","]","[","1","]","C","a","t",":"," ","x">>

\* Headers with the timestamp of StdStamp, named by the text that follows
\* the brackets: the inputs of _split_log_category and _split_log_verbosity.
TrailingLines ==
    {"A:B: c", "Cat: ", "Cat:  x", "Cat:\tx", "A B: c: d", ": x", "Cat:x",
     "Cat: Warning: ", "Cat: Warning:  x", "Cat: Error: e",
     "Cat: Display: a: b", "Cat: Warning:x", "Cat: Warnings: x",
     "Cat: x Warning: y"}

\* Lines named by their text: "Cat: x" after brackets whose fields have other
\* widths or other characters than those of StdStamp, the inputs of
\* _log_start_pattern.
StampLines ==
    {"[2020.1.2-3.4.5:6][1]Cat: x", "[20.12.14-13.46.03:809][1]Cat: x",
     "[2020.012.014-013.046.003:0809][1]Cat: x",
     "[2020.12.14-13.46.03:8090][1]Cat: x",
     "[2020.12.14-13.46.03:809][]Cat: x",
     "[2020.12.14-13.46.03:809][ a]Cat: x",
     "[2020.12.14-13.46.03:809][\t 1 ]Cat: x",
     " [2020.12.14-13.46.03:809][1]Cat: x",
     "[2020.12.14 13.46.03:809][1]Cat: x",
     "[2020.12.14-13.46.03.809][1]Cat: x"}

HdrLines == TrailingLines \cup StampLines

\* The lines of the files given to the constructor alone: with the marker
\* of line 57 before the offset ("marked"), without it ("unmarked") or with
\* it after the offset ("after"), and with no "Raw Offset:" ("none") or one
\* of five offsets.
TzLines ==
    {"marked none", "marked +9:00", "marked -3:30",
     "marked -0:30", "marked 5:45", "marked +24:00",
     "unmarked none", "unmarked +9:00", "unmarked -3:30",
     "unmarked -0:30", "unmarked 5:45", "unmarked +24:00",
     "after none", "after +9:00", "after -3:30",
     "after -0:30", "after 5:45", "after +24:00"}

\* Every line readline() can return from a file of the model: the text of a
\* named line, with or without the line break that ends it.
AllLines == Lines \cup TzLines \cup HdrLines

KnownLines ==
    {Text(n) : n \in AllLines} \cup {Text(n) \o <<"\n">> : n \in AllLines}

\* ------------------------------------------------- the regular expressions

\* A failed re.match (Python's None).
NoMatch == [ok |-> FALSE, g |-> <<>>]

\* The items of _log_start_pattern, parser.py line 126:
\*   ^\[(\d+)\.(\d+)\.(\d+)-(\d+)\.(\d+)\.(\d+):(\d+)\]\[[\s\d]+\](.+)$
\* "d" is a group (\d+), "sd" is [\s\d]+, "rest" is (.+)$ and any other item
\* is that character itself.
LogStartItems ==
    << "[", "d", ".", "d", ".", "d", "-", "d", ".", "d", ".", "d", ":", "d",
       "]", "[", "sd", "]", "rest" >>

\* The match of the items from the k-th on against s from position p on,
\* with g the groups matched so far.  Every \d+ is followed by a character
\* that is no digit and [\s\d]+ by "]", so each run is the longest one;
\* (.+)$ is the rest of the line without line breaks, up to the end of the
\* line or to the line break that ends it.
RECURSIVE MatchItems(_, _, _, _)
MatchItems(s, p, k, g) ==
    IF k > Len(LogStartItems) THEN [ok |-> TRUE, g |-> g]
    ELSE IF LogStartItems[k] = "d"
    THEN IF DigitsEnd(s, p) = p THEN NoMatch
         ELSE MatchItems(s, DigitsEnd(s, p), k + 1,
                         Append(g, SubSeq(s, p, DigitsEnd(s, p) - 1)))
    ELSE IF LogStartItems[k] = "sd"
    THEN IF SpaceDigitsEnd(s, p) = p THEN NoMatch
         ELSE MatchItems(s, SpaceDigitsEnd(s, p), k + 1, g)
    ELSE IF LogStartItems[k] = "rest"
    THEN IF /\ DotEnd(s, p) > p
            /\ \/ DotEnd(s, p) = Len(s) + 1
               \/ DotEnd(s, p) = Len(s) /\ s[Len(s)] = "\n"
         THEN MatchItems(s, DotEnd(s, p), k + 1,
                         Append(g, SubSeq(s, p, DotEnd(s, p) - 1)))
         ELSE NoMatch
    ELSE IF At(s, p, LogStartItems[k]) THEN MatchItems(s, p + 1, k + 1, g)
    ELSE NoMatch

\* _log_start_pattern.match(line): groups 1 to 7 are the digits of the
\* timestamp, group 8 is the text after the second bracket.
PatternMatch(line) == MatchItems(line, 1, 1, <<>>)

\* The matches of the lines of the model's files, computed once.
LogStartMatches == [line \in KnownLines |-> PatternMatch(line)]

log_start_pattern(line) ==
    IF line \in KnownLines THEN LogStartMatches[line] ELSE PatternMatch(line)

\* Where the (.+) of  \s+(.+)  starts when \s+ starts at w0, 0 when the two
\* do not match: \s+ takes the longest run of whitespace that still leaves a
\* character other than a line break for (.+), giving whitespace back if the
\* run reaches the end of the text.
SepStart(s, w0) ==
    LET w1   == SpacesEnd(s, w0)
        cand == {q \in (w0 + 1)..w1 : q <= Len(s) /\ s[q] # "\n"}
    IN  IF cand = {} THEN 0 ELSE Max(cand)

\* The groups of  \s+(.+)  when (.+) starts at q: the text from q up to the
\* end of s or to a line break.
SepGroups(s, first, q) ==
    IF q = 0 THEN NoMatch
    ELSE [ok |-> TRUE, g |-> << first, SubSeq(s, q, DotEnd(s, q) - 1) >>]

\* _split_log_category.match(s), parser.py line 136:  ([^:]+):\s+(.+)
\* group 1 ends at the first colon of s, the only place where ":" can follow
\* a run of [^:].
CategoryAt(s, c) ==
    IF c > 1 /\ At(s, c, ":")
    THEN SepGroups(s, SubSeq(s, 1, c - 1), SepStart(s, c + 1))
    ELSE NoMatch

split_log_category(s) == CategoryAt(s, NotColonEnd(s, 1))

Keywords == << <<"W","a","r","n","i","n","g">>, <<"E","r","r","o","r">>, <<"D","i","s","p","l","a","y">> >>

\* Whether s starts with the k-th keyword and a colon.
KeywordAt(s, k) ==
    OccursAt(s, Keywords[k], 1) /\ At(s, Len(Keywords[k]) + 1, ":")

\* _split_log_verbosity.match(s), parser.py line 151:
\*   (Warning|Error|Display):\s+(.+)
\* No keyword is the start of another: at most one alternative applies.
split_log_verbosity(s) ==
    IF \E k \in 1..Len(Keywords) : KeywordAt(s, k)
    THEN LET k == CHOOSE k \in 1..Len(Keywords) : KeywordAt(s, k)
         IN  SepGroups(s, Keywords[k], SepStart(s, Len(Keywords[k]) + 2))
    ELSE NoMatch

RawOffsetText == <<"R","a","w"," ","O","f","f","s","e","t",":">>

\* Whether  \s*([^:]+):(\d+)  matches s at position a.  \s* and [^:]+ share
\* the text up to the next colon, at c, which [^:]+ must reach.
OffsetAt(s, a, c) == c > a /\ At(s, c, ":") /\ DigitsEnd(s, c + 1) > c + 1

\* Whether  Raw Offset:\s*([^:]+):(\d+)  matches s at position p.
RawOffsetAt(s, p) ==
    /\ OccursAt(s, RawOffsetText, p)
    /\ OffsetAt(s, p + Len(RawOffsetText),
                NotColonEnd(s, p + Len(RawOffsetText)))

\* The groups of the match with "Raw Offset:" at p: a is the position after
\* it and c the position of the next colon.  \s* takes the whitespace at a,
\* but leaves [^:]+ its one character.
RawOffsetGroups(s, a, c) ==
    [ok |-> TRUE,
     g  |-> << SubSeq(s, IF SpacesEnd(s, a) < c THEN SpacesEnd(s, a) ELSE c - 1,
                      c - 1),
               SubSeq(s, c + 1, DigitsEnd(s, c + 1) - 1) >>]

\* _extract_time_zone_pattern.match(line), parser.py line 109:
\*   .+Raw Offset:\s*([^:]+):(\d+)
\* .+ is greedy and needs one character: the match uses the last
\* "Raw Offset:" of the line, not at its start, that the rest matches.
extract_time_zone_pattern(line) ==
    LET ps == {p \in 2..DotEnd(line, 1) : RawOffsetAt(line, p)}
    IN  IF ps = {} THEN NoMatch
        ELSE RawOffsetGroups(line, Max(ps) + Len(RawOffsetText),
                             NotColonEnd(line, Max(ps) + Len(RawOffsetText)))

\* --------------------------------------------------------- datetime values

IsLeap(y) == (y % 4 = 0 /\ y % 100 # 0) \/ y % 400 = 0

DaysInMonth(y, m) ==
    IF m = 2 THEN (IF IsLeap(y) THEN 29 ELSE 28)
    ELSE IF m \in {4, 6, 9, 11} THEN 30 ELSE 31

\* Whether datetime(year, month, day, hour, minute, second, microsecond)
\* accepts its arguments; it raises ValueError otherwise.
DatetimeOk(y, mo, d, h, mi, s, us) ==
    /\ y \in 1..9999
    /\ mo \in 1..12
    /\ d >= 1 /\ d <= DaysInMonth(y, mo)
    /\ h \in 0..23
    /\ mi \in 0..59
    /\ s \in 0..59
    /\ us >= 0 /\ us <= 999999

\* timedelta(hours=h, minutes=m), in minutes.
timedelta(h, m) == h * 60 + m

\* Whether timezone(offset) accepts the offset: strictly between -24 h and
\* 24 h; it raises ValueError otherwise.
TimezoneOk(offset) == offset > 0 - 1440 /\ offset < 1440

\* ------------------------------------------------------ the header decoder

\* Parser._is_logstart, parser.py lines 153-168.
is_logstart(line) == log_start_pattern(line).ok

\* Verbosity[name], parser.py lines 9-15 and 209.
Verbosity(name) ==
    CASE name = Keywords[1] -> "Warning"
      [] name = Keywords[2] -> "Error"
      [] name = Keywords[3] -> "Display"

NoneValue == [kind |-> "None"]

ValueError == [kind |-> "ValueError"]

\* A decoder that passes the milliseconds on as they are (line 193 without
\* the *1000).
MicrosecondUnscaled(ms) == ms

\* The microsecond argument of datetime(), parser.py line 193.
Microsecond(ms) == ms * 1000

\* datetime(...), parser.py lines 186-195, from the seven groups of digits.
\* int() of a run of digits cannot fail.
Datetime(g, log_timezone) ==
    [year |-> int(g[1]).val, month |-> int(g[2]).val, day |-> int(g[3]).val,
     hour |-> int(g[4]).val, minute |-> int(g[5]).val,
     second |-> int(g[6]).val, microsecond |-> Microsecond(int(g[7]).val),
     tzinfo |-> log_timezone]

\* Lines 206-215: the Log, given the match of the category and the match of
\* the verbosity on the text after the category.
MakeLog(time, log_without_time, category_match, verbosity_math) ==
    [kind      |-> "Log",
     date      |-> time,
     verbosity |-> IF verbosity_math.ok
                   THEN Verbosity(verbosity_math.g[1]) ELSE "Log",
     category  |-> category_match.g[1],
     log       |-> log_without_time,
     log_body  |-> IF verbosity_math.ok
                   THEN verbosity_math.g[2] ELSE category_match.g[2]]

\* A decoder that, without a category, returns a Log with category None and
\* verbosity None and the whole text as log and log_body, as the last record
\* of the test's list (tests/test.py lines 55-63), instead of None.
DecodeHeaderNoneCategory(time, log_without_time, category_match) ==
    IF ~DatetimeOk(time.year, time.month, time.day, time.hour, time.minute,
                   time.second, time.microsecond)
    THEN ValueError
    ELSE IF ~category_match.ok
    THEN [kind |-> "Log", date |-> time, verbosity |-> "None",
          category |-> NoneValue, log |-> log_without_time,
          log_body |-> log_without_time]
    ELSE MakeLog(time, log_without_time, category_match,
                 split_log_verbosity(category_match.g[2]))

\* Lines 186-215, given the timestamp and the match of the category.
\* datetime() raises ValueError at line 186, before the category is looked
\* at; without a category the result is None (line 201).
DecodeHeader(time, log_without_time, category_match) ==
    IF ~DatetimeOk(time.year, time.month, time.day, time.hour, time.minute,
                   time.second, time.microsecond)
    THEN ValueError
    ELSE IF ~category_match.ok THEN NoneValue
    ELSE MakeLog(time, log_without_time, category_match,
                 split_log_verbosity(category_match.g[2]))

\* The same, given the groups of _log_start_pattern.
DecodeGroups(g, log_timezone) ==
    DecodeHeader(Datetime(g, log_timezone), g[8], split_log_category(g[8]))

\* Parser._parse_log_start_line, parser.py lines 171-215, for a line that
\* matches _log_start_pattern: a Log, None, or ValueError raised.
parse_log_start_line(line, log_timezone) ==
    DecodeGroups(log_start_pattern(line).g, log_timezone)

\* ------------------------------------------------------------ the stream

\* The number of lines of the file f.
NumLines(f) == Len(f.lines)

\* file_object.readline() at position pos of the file f: the line with the
\* line break that ends it (the last line of a file may have none), or the
\* empty str at the end of the file.
ReadLine(f, pos) ==
    IF pos > NumLines(f) THEN <<>>
    ELSE IF pos < NumLines(f) \/ f.eofNewline
    THEN Text(f.lines[pos]) \o <<"\n">>
    ELSE Text(f.lines[pos])

\* file_object.tell() after the readline() at position pos.
TellAfter(f, pos) == IF pos <= NumLines(f) THEN pos + 1 ELSE pos

\* ----------------------------------------------------------- construction

TimeZoneDetection == <<"T","i","m","e","Z","o","n","e"," ","D","e","t","e","c","t","i","o","n">>

\* The test of parser.py line 57.
HasMarker(line) == Contains(line, TimeZoneDetection)

\* The lines of the model's files that have the marker, computed once.
MarkerLines == {line \in KnownLines : HasMarker(line)}

\* A constructor that takes "Raw Offset:" instead of "TimeZone Detection" for
\* the mark of the announcement at line 57.
IsAnnouncementByRawOffset(line) == Contains(line, RawOffsetText)

IsAnnouncement(line) ==
    IF line \in KnownLines THEN line \in MarkerLines ELSE HasMarker(line)

\* Lines 59-60, given int() of the two groups: ValueError from int() or
\* from timezone(), or the offset in minutes.
OffsetOf(hours, mins) ==
    IF ~hours.ok \/ ~mins.ok THEN [error |-> "ValueError", tz |-> 0]
    ELSE IF ~TimezoneOk(timedelta(hours.val, mins.val))
    THEN [error |-> "ValueError", tz |-> 0]
    ELSE [error |-> "", tz |-> timedelta(hours.val, mins.val)]

\* Lines 58-60, given the match: match.group() of no match (match is None)
\* raises AttributeError.
OffsetOfMatch(match) ==
    IF ~match.ok THEN [error |-> "AttributeError", tz |-> 0]
    ELSE OffsetOf(int(match.g[1]), int(match.g[2]))

\* Lines 58-60 for the announcement line: the offset in minutes, or the
\* exception raised.
ResolveOffset(line) == OffsetOfMatch(extract_time_zone_pattern(line))

\* A constructor that puts the file back at its start once the offset is
\* resolved.
AnnouncedRewound(f, i, r) == [error |-> r.error, tz |-> r.tz, pos |-> 1]

\* Lines 57-61: the Parser state after the announcement at position i.
Announced(f, i, r) == [error |-> r.error, tz |-> r.tz, pos |-> TellAfter(f, i)]

\* Parser.__init__, parser.py lines 53-66, from line i of the file on: the
\* first line with the marker decides; without one the scan reaches the end
\* of the file and line 66 raises Exception.
RECURSIVE InitScan(_, _)
InitScan(f, i) ==
    IF ReadLine(f, i) = <<>>
    THEN [error |-> "Exception", tz |-> 0, pos |-> i]
    ELSE IF IsAnnouncement(ReadLine(f, i))
    THEN Announced(f, i, ResolveOffset(ReadLine(f, i)))
    ELSE InitScan(f, TellAfter(f, i))

\* ------------------------------------------------------------------ read()

\* A folding that keeps the line break of the continuation line (line 92
\* and 93 without the replace).
AppendLineUnstripped(log, line) ==
    [log EXCEPT !.log      = @ \o <<"\n">> \o line,
                !.log_body = @ \o <<"\n">> \o line]

\* A folding that extends log_body alone (line 92 left out).
AppendLineBodyOnly(log, line) ==
    [log EXCEPT !.log_body = @ \o <<"\n">> \o StripNewlines(line)]

\* Lines 90-93: the continuation line is appended to log and to log_body,
\* after a line break and without its own.
AppendLine(log, line) ==
    [log EXCEPT !.log      = @ \o <<"\n">> \o StripNewlines(line),
                !.log_body = @ \o <<"\n">> \o StripNewlines(line)]

\* A read() that seeks to the line before prev_pos.
SeekTargetLineBefore(prev_pos, cur_pos) == prev_pos - 1

\* A read() without the seek of line 97: the file stays after the line that
\* ended the folding.
SeekTargetNoRewind(prev_pos, cur_pos) == cur_pos

\* Line 97: the position the file is left at when the record is returned is
\* prev_pos, the position before the line that ended the folding, not
\* cur_pos, the position after it.
SeekTarget(prev_pos, cur_pos) == prev_pos

\* A folding that leaves prev_pos as line 86 set it (line 89 left out).
NextPrevPosStale(prev_pos, tell) == prev_pos

\* Line 89: prev_pos follows the file position (tell) after every
\* continuation line.
NextPrevPos(prev_pos, tell) == tell

\* Lines 86-98, with line j of the file the next to be read and prev_pos as
\* set at line 86 or 89: continuation lines are folded into log until a line
\* matches the header pattern or the file ends.  hdr is the position of the
\* record's header; parsed lists the positions given to
\* _parse_log_start_line during the call.
RECURSIVE Fold(_, _, _, _, _, _)
Fold(f, log, j, prev_pos, hdr, parsed) ==
    IF ReadLine(f, j) # <<>> /\ ~is_logstart(ReadLine(f, j))
    THEN Fold(f, AppendLine(log, ReadLine(f, j)), TellAfter(f, j),
              NextPrevPos(prev_pos, TellAfter(f, j)), hdr, parsed)
    ELSE [ret |-> log, pos |-> SeekTarget(prev_pos, TellAfter(f, j)),
          hdr |-> hdr, last |-> prev_pos - 1, parsed |-> parsed]

\* A read() that returns what the decoder returns: None, instead of going
\* on, when the header has no category (lines 81-83 left out).
HeaderReturnsNone(f, log_timezone, i, parsed, log) ==
    IF log = ValueError \/ log = NoneValue
    THEN [ret |-> log, pos |-> TellAfter(f, i), hdr |-> 0, last |-> 0,
          parsed |-> parsed]
    ELSE Fold(f, log, TellAfter(f, i), TellAfter(f, i), i, parsed)

RECURSIVE Scan(_, _, _, _)

\* Lines 80-98 for the header-shaped line at position i, given what
\* _parse_log_start_line made of it.
Header(f, log_timezone, i, parsed, log) ==
    IF log = ValueError
    THEN [ret |-> ValueError, pos |-> TellAfter(f, i), hdr |-> 0, last |-> 0,
          parsed |-> parsed]
    ELSE IF log = NoneValue
    THEN Scan(f, log_timezone, TellAfter(f, i), parsed)
    ELSE Fold(f, log, TellAfter(f, i), TellAfter(f, i), i, parsed)

\* Lines 78-102, with line i of the file the next to be read.
Scan(f, log_timezone, i, parsed) ==
    IF ReadLine(f, i) = <<>>
    THEN [ret |-> NoneValue, pos |-> i, hdr |-> 0, last |-> 0,
          parsed |-> parsed]
    ELSE IF is_logstart(ReadLine(f, i))
    THEN Header(f, log_timezone, i, Append(parsed, i),
                parse_log_start_line(ReadLine(f, i), log_timezone))
    ELSE Scan(f, log_timezone, TellAfter(f, i), parsed)

\* A read() that gives up at a first line that is not header-shaped: it
\* returns None after that one line instead of going on at line 100.
readStopsAtText(f, log_timezone, pos) ==
    IF ReadLine(f, pos) = <<>>
    THEN [ret |-> NoneValue, pos |-> pos, hdr |-> 0, last |-> 0,
          parsed |-> <<>>]
    ELSE IF ~is_logstart(ReadLine(f, pos))
    THEN [ret |-> NoneValue, pos |-> TellAfter(f, pos), hdr |-> 0, last |-> 0,
          parsed |-> <<>>]
    ELSE Scan(f, log_timezone, pos, <<>>)

\* Parser.read, parser.py lines 68-102, with the file at position pos: what
\* the call returns or raises (ret) and where it leaves the file (pos).
read(f, log_timezone, pos) ==
    IF ReadLine(f, pos) = <<>>
    THEN [ret |-> NoneValue, pos |-> pos, hdr |-> 0, last |-> 0,
          parsed |-> <<>>]
    ELSE Scan(f, log_timezone, pos, <<>>)

\* ------------------------------------------------------------ the bounds

\* The longest file, in lines.
MaxLines == 4

\* The longest file given to the constructor alone, in lines.
MaxTzLines == 2

\* The most header lines after the announcement in the files given to the
\* header decoder.
MaxHdrLines == 2

\* The number of read() calls made on one Parser.
MaxReads == MaxLines + 1

\* Whether f is a file of at most n lines drawn from S.  A file is the names
\* of its lines and whether its last line ends with a line break; an empty
\* last line always does.
IsFile(f, S, n) ==
    /\ NumLines(f) <= n
    /\ \A k \in 1..NumLines(f) : f.lines[k] \in S
    /\ f.eofNewline \/ (NumLines(f) > 0 /\ Text(f.lines[NumLines(f)]) # <<>>)

\* ------------------------------------------------------- the state machine

VARIABLES
    stream,        \* the lines of the file given to the Parser
    pos,           \* the position of the file: the next line to be read
    pc,            \* "new": no Parser yet; "ready": constructed; "failed":
                   \* the constructor raised
    error,         \* the exception the constructor raised, "" if none
    log_timezone,  \* self._log_timezone: <<>> for None, <<minutes>> once set
    results,       \* history: one entry per read() call, in order
    calls          \* the number of read() calls made so far

vars == <<stream, pos, pc, error, log_timezone, results, calls>>

Init ==
    /\ \E k \in 0..MaxLines : \E c \in [1..k -> Lines] : \E nl \in BOOLEAN :
          /\ stream = [lines |-> c, eofNewline |-> nl]
          /\ IsFile(stream, Lines, MaxLines)
    /\ pos = 1
    /\ pc = "new"
    /\ error = ""
    /\ log_timezone = <<>>
    /\ results = <<>>
    /\ calls = 0

\* Parser(file_object): parser.py lines 40-66.
Construct ==
    /\ pc = "new"
    /\ LET r == InitScan(stream, pos)
       IN  /\ pos' = r.pos
           /\ error' = r.error
           /\ pc' = IF r.error = "" THEN "ready" ELSE "failed"
           /\ log_timezone' = IF r.error = "" THEN <<r.tz>> ELSE <<>>
    /\ UNCHANGED <<stream, results, calls>>

\* parser.read(): parser.py lines 68-102.  An exception raised by the call
\* leaves the Parser and the file as they are at that point.
Read ==
    /\ pc = "ready"
    /\ Len(results) < MaxReads
    /\ LET r == read(stream, log_timezone[1], pos)
       IN  /\ pos' = r.pos
           /\ results' = Append(results,
                  [ret |-> r.ret, first |-> pos, hdr |-> r.hdr,
                   last |-> r.last, parsed |-> r.parsed, pos |-> r.pos])
    /\ calls' = calls + 1
    /\ UNCHANGED <<stream, pc, error, log_timezone>>

Next == Construct \/ Read

Spec == Init /\ [][Next]_vars

\* The caller makes one more read() call: the step of Read as far as the
\* count of calls goes.  It can be taken exactly when Read can.
Call == pc = "ready" /\ Len(results) < MaxReads /\ calls' = calls + 1

\* The same with a caller that goes on calling read() on the Parser as long
\* as the bound on the calls allows: the loop of tests/test.py lines 65-73,
\* without its exit at the first None.
SpecLive == Spec /\ WF_calls(Call)

\* Construction alone, on files of announcement-like lines.
InitTz ==
    /\ \E k \in 0..MaxTzLines : \E c \in [1..k -> TzLines] :
          stream = [lines |-> c, eofNewline |-> TRUE]
    /\ pos = 1
    /\ pc = "new"
    /\ error = ""
    /\ log_timezone = <<>>
    /\ results = <<>>
    /\ calls = 0

NextTz == Construct

SpecTz == InitTz /\ [][NextTz]_vars

\* Construction and read() on files made of the announcement of the sample
\* log followed by header lines of many shapes.
InitHdr ==
    /\ \E k \in 0..MaxHdrLines : \E c \in [1..k -> HdrLines] :
          \E nl \in BOOLEAN :
             stream = [lines |-> <<"Tz">> \o c, eofNewline |-> nl]
    /\ pos = 1
    /\ pc = "new"
    /\ error = ""
    /\ log_timezone = <<>>
    /\ results = <<>>
    /\ calls = 0

NextHdr == Construct \/ Read

SpecHdr == InitHdr /\ [][NextHdr]_vars

\* ------------------------------------------------- the claims' vocabulary

\* What the claims say of the lines of the model's files, line by line and
\* independently of the operators above.
\* Header-shaped lines: [YYYY.MM.DD-HH.MM.SS:mmm][<digits/spaces>]<rest>.
HeaderShapedNames ==
    {"Log", "Warning", "NoCategory", "BadMonth", "BadDayNoCategory"}

\* Header-shaped lines whose text after the brackets has a ": " separator.
SeparatorNames == {"Log", "Warning", "BadMonth"}

\* Well-formed headers: a separator and a date and time that exist.
WellFormedNames == {"Log", "Warning"}

\* Lines that contain the marker "TimeZone Detection".
MarkedNames ==
    {"Tz", "TzNeg",
     "marked none", "marked +9:00", "marked -3:30", "marked -0:30",
     "marked 5:45", "marked +24:00",
     "after none", "after +9:00", "after -3:30", "after -0:30",
     "after 5:45", "after +24:00"}

\* Lines that contain "Raw Offset:" followed by <sign><hours>:<minutes>.
OffsetNames == (Lines \cup TzLines) \
    {"marked none", "unmarked none", "after none",
     "Log", "Warning", "NoCategory", "BadMonth", "BadDayNoCategory", "Text",
     "Empty"}

\* Lines whose offset is not strictly between -24 h and 24 h.
OutOfRangeNames == {"marked +24:00", "unmarked +24:00", "after +24:00"}

\* The marked lines in which a character precedes "Raw Offset:" and the
\* offset lies strictly between -24 h and 24 h.
ResolvableNames ==
    {"Tz", "TzNeg", "marked +9:00", "marked -3:30", "marked -0:30",
     "marked 5:45"}

\* The hour and minute fields of the announcement in a line, as written.
HourField(name) ==
    CASE name \in {"Tz", "marked +9:00", "unmarked +9:00", "after +9:00"} -> 9
      [] name \in {"TzNeg", "marked -3:30", "unmarked -3:30", "after -3:30"} -> 0 - 3
      [] name \in {"marked -0:30", "unmarked -0:30", "after -0:30"} -> 0
      [] name \in {"marked 5:45", "unmarked 5:45", "after 5:45"} -> 5
      [] name \in {"marked +24:00", "unmarked +24:00", "after +24:00"} -> 24

MinuteField(name) ==
    CASE name \in {"Tz", "marked +9:00", "unmarked +9:00", "after +9:00"} -> 0
      [] name \in {"TzNeg", "marked -3:30", "unmarked -3:30", "after -3:30"} -> 30
      [] name \in {"marked -0:30", "unmarked -0:30", "after -0:30"} -> 30
      [] name \in {"marked 5:45", "unmarked 5:45", "after 5:45"} -> 45
      [] name \in {"marked +24:00", "unmarked +24:00", "after +24:00"} -> 0

\* Whether the hour field is written with a minus sign.
NegativeHour(name) ==
    name \in {"TzNeg", "marked -3:30", "unmarked -3:30", "after -3:30",
              "marked -0:30", "unmarked -0:30", "after -0:30"}

Abs(x) == IF x < 0 THEN 0 - x ELSE x

\* The offset an announcement denotes, in minutes: the magnitude
\* hours * 60 + minutes with the sign of the hour field.
DenotedOffset(name) ==
    IF NegativeHour(name)
    THEN 0 - (Abs(HourField(name)) * 60 + MinuteField(name))
    ELSE Abs(HourField(name)) * 60 + MinuteField(name)

Min(S) == CHOOSE x \in S : \A y \in S : x <= y

\* The position of the first line of f whose name is in S, 0 if none.
FirstIn(f, S) ==
    IF \E i \in 1..NumLines(f) : f.lines[i] \in S
    THEN Min({i \in 1..NumLines(f) : f.lines[i] \in S})
    ELSE 0

\* The lines read() has consumed so far: those after the announcement and
\* before the file position.
Consumed == IF pc = "ready" THEN (FirstIn(stream, MarkedNames) + 1)..(pos - 1) ELSE {}

\* The read() calls that returned a record.
RecordCalls == {k \in 1..Len(results) : results[k].ret.kind = "Log"}

\* The records of the two well-formed headers, as the test writes them
\* (tests/test.py lines 10-27), with the offset of the Parser.
ExpectedLog(name, tz) ==
    IF name = "Log"
    THEN [kind |-> "Log",
          date |-> [year |-> 2020, month |-> 12, day |-> 14, hour |-> 13,
                    minute |-> 46, second |-> 3, microsecond |-> 809000,
                    tzinfo |-> tz],
          verbosity |-> "Log",
          category  |-> <<"L","o","g","T","e","m","p">>,
          log       |-> <<"L","o","g","T","e","m","p",":"," ","a">>,
          log_body  |-> <<"a">>]
    ELSE [kind |-> "Log",
          date |-> [year |-> 2020, month |-> 12, day |-> 14, hour |-> 13,
                    minute |-> 46, second |-> 4, microsecond |-> 819000,
                    tzinfo |-> tz],
          verbosity |-> "Warning",
          category  |-> <<"C","a","t">>,
          log       |-> <<"C","a","t",":"," ","W","a","r","n","i","n","g",":"," ","b">>,
          log_body  |-> <<"b">>]

\* first joined with the texts of lines i..j of f, each after a line break.
RECURSIVE Joined(_, _, _, _)
Joined(first, f, i, j) ==
    IF i > j THEN first
    ELSE Joined(first \o <<"\n">> \o Text(f.lines[i]), f, i + 1, j)

\* The position of the last of the lines that follow line i of f without
\* being header-shaped.
RECURSIVE LastContinuation(_, _)
LastContinuation(f, i) ==
    IF i < NumLines(f) /\ f.lines[i + 1] \notin HeaderShapedNames
    THEN LastContinuation(f, i + 1) ELSE i

IsSuffix(b, l) ==
    Len(b) <= Len(l) /\ SubSeq(l, Len(l) - Len(b) + 1, Len(l)) = b

\* ---------------------------------------------------------------- claims

\* A file of one announcement followed by well-formed headers only.
SimpleStream(f) ==
    /\ NumLines(f) >= 1
    /\ f.lines[1] \in {"Tz", "TzNeg"}
    /\ \A i \in 2..NumLines(f) : f.lines[i] \in WellFormedNames

\* C1: on a stream of one timezone announcement followed by N well-formed
\* single-line headers, the first N read() calls return the records of the
\* headers in stream order and the call after them returns None.
C1_RecordsThenSentinel ==
    SimpleStream(stream) =>
        /\ pc \in {"new", "ready"}
        /\ \A k \in 1..Len(results) :
              results[k].ret =
                 IF k < NumLines(stream)
                 THEN ExpectedLog(stream.lines[k + 1], log_timezone[1])
                 ELSE NoneValue

\* Two different headers have been returned in order, then the sentinel.
C1_Witness ==
    /\ SimpleStream(stream)
    /\ NumLines(stream) = 3
    /\ stream.lines[2] # stream.lines[3]
    /\ Len(results) = 3

\* C2: no header line is skipped or duplicated at a read() boundary.  The
\* header-shaped line that ends the folding of a record is not in the record
\* and is where the file is left; the next read() starts at it and gives it
\* to the decoder first; no line is given to the decoder twice; every
\* header-shaped line consumed has been given to the decoder; the records
\* come in the order of their headers.
C2_NoHeaderLostAtBoundary ==
    /\ \A k \in RecordCalls :
          /\ results[k].pos = results[k].last + 1
          /\ results[k].last = LastContinuation(stream, results[k].hdr)
          /\ results[k].pos <= NumLines(stream) =>
                stream.lines[results[k].pos] \in HeaderShapedNames
          /\ (k < Len(results) /\ results[k].pos <= NumLines(stream)) =>
                /\ results[k + 1].first = results[k].pos
                /\ results[k + 1].parsed # <<>>
                /\ results[k + 1].parsed[1] = results[k].pos
    /\ \A k, j \in 1..Len(results) :
          \A a \in 1..Len(results[k].parsed), b \in 1..Len(results[j].parsed) :
             (k < j \/ (k = j /\ a < b)) =>
                results[k].parsed[a] < results[j].parsed[b]
    /\ \A i \in Consumed :
          stream.lines[i] \in HeaderShapedNames =>
             \E k \in 1..Len(results) :
                \E a \in 1..Len(results[k].parsed) : results[k].parsed[a] = i
    /\ \A k, j \in RecordCalls : k < j => results[k].hdr < results[j].hdr

\* A record with a continuation line was ended by a header-shaped line, and
\* the next read() has returned that line's record.
C2_Witness ==
    \E k \in RecordCalls :
       /\ results[k].last > results[k].hdr
       /\ results[k].pos <= NumLines(stream)
       /\ k + 1 \in RecordCalls
       /\ results[k + 1].hdr = results[k].pos

\* C3: a header that the decoder accepts, followed by K lines that are not
\* header-shaped, gives exactly one record; its log_body is the body of the
\* header and its log the text after the brackets, each joined with the K
\* lines in stream order, every one after a line break and without its own.
C3_Folding ==
    \A i \in Consumed :
       stream.lines[i] \in WellFormedNames =>
          /\ Cardinality({k \in RecordCalls : results[k].hdr = i}) = 1
          /\ \A k \in RecordCalls :
                results[k].hdr = i =>
                   /\ results[k].ret.log_body =
                         Joined(ExpectedLog(stream.lines[i], 0).log_body,
                                stream, i + 1, LastContinuation(stream, i))
                   /\ results[k].ret.log =
                         Joined(ExpectedLog(stream.lines[i], 0).log,
                                stream, i + 1, LastContinuation(stream, i))

\* A record with two different continuation lines has been returned.
C3_Witness ==
    \E k \in RecordCalls :
       /\ results[k].last = results[k].hdr + 2
       /\ stream.lines[results[k].hdr + 1] # stream.lines[results[k].hdr + 2]

\* C4: once read() has returned None, every later read() returns None too
\* (it does not raise) and leaves the file position and the timezone of the
\* Parser as they are.
C4_SentinelAbsorbing ==
    [][(results # <<>> /\ results[Len(results)].ret = NoneValue) =>
          /\ pos' = pos
          /\ log_timezone' = log_timezone
          /\ pc' = pc
          /\ results' # results =>
                results'[Len(results')].ret = NoneValue]_vars

\* read() has returned a record, then the sentinel twice.
C4_Witness ==
    /\ Len(results) >= 3
    /\ results[1].ret.kind = "Log"
    /\ results[Len(results)].ret = NoneValue
    /\ results[Len(results) - 1].ret = NoneValue

\* C5: a header-shaped line without a ": " separator is skipped: it is the
\* header of no record, the read() that meets it does not raise and returns
\* the sentinel only at the end of the file, and the valid headers after it
\* are returned.
C5_SkipNotStop ==
    \A i \in Consumed :
       stream.lines[i] \in HeaderShapedNames \ SeparatorNames =>
          /\ \A k \in 1..Len(results) :
                /\ results[k].hdr # i
                /\ ~(results[k].ret = ValueError /\ results[k].pos = i + 1)
                /\ results[k].ret = NoneValue =>
                      results[k].pos = NumLines(stream) + 1
          /\ \A j \in Consumed :
                (j > i /\ stream.lines[j] \in WellFormedNames) =>
                   \E k \in RecordCalls : results[k].hdr = j

\* C6: without a "Raw Offset:" line in the stream the constructor fails
\* after scanning the stream to its end.
C6_FailsAfterFullScan ==
    (pc # "new" /\ FirstIn(stream, OffsetNames) = 0) =>
        pc = "failed" /\ pos = NumLines(stream) + 1

\* C7: read() never raises, and every header-shaped line with a category
\* separator that it consumes is returned as a record, whatever its date
\* and time fields.
C7_ReadNeverRaises ==
    /\ \A k \in 1..Len(results) : results[k].ret.kind \in {"Log", "None"}
    /\ \A i \in Consumed :
          stream.lines[i] \in SeparatorNames =>
             \E k \in RecordCalls : results[k].hdr = i

\* C8: in every record returned by read(), log_body is a suffix of log and
\* log is not empty.
C8_BodySuffixOfLog ==
    \A k \in RecordCalls :
       /\ IsSuffix(results[k].ret.log_body, results[k].ret.log)
       /\ results[k].ret.log # <<>>

\* A record with a verbosity, so that log_body is shorter than log, and with
\* a continuation line has been returned.
C8_Witness ==
    \E k \in RecordCalls :
       /\ results[k].ret.verbosity = "Warning"
       /\ results[k].last > results[k].hdr
       /\ Len(results[k].ret.log_body) < Len(results[k].ret.log)

\* C9 as stated: the first line with "Raw Offset:" followed by
\* <sign><hours>:<minutes> is the announcement, whatever else it contains:
\* the constructor succeeds and stops after that line.  (Stated for the
\* offsets that timezone() accepts.)
C9_FirstOffsetLineRecognised ==
    (pc # "new" /\ FirstIn(stream, OffsetNames \ OutOfRangeNames) # 0) =>
        /\ pc = "ready"
        /\ pos = FirstIn(stream, OffsetNames \ OutOfRangeNames) + 1

\* C9 as amended: the first line with the marker "TimeZone Detection" is the
\* announcement, and lines without the marker are passed over even if they
\* have "Raw Offset:".  The constructor stops after that line; it succeeds,
\* with timedelta(hours, minutes) of the line's fields as the offset, when
\* in that line a character precedes "Raw Offset: <sign><hours>:<minutes>"
\* and the offset is strictly between -24 h and 24 h, and fails otherwise.
C9_FirstMarkedLineRecognised ==
    (pc # "new" /\ FirstIn(stream, MarkedNames) # 0) =>
        LET name == stream.lines[FirstIn(stream, MarkedNames)]
        IN  /\ pos = FirstIn(stream, MarkedNames) + 1
            /\ name \in ResolvableNames =>
                  /\ pc = "ready"
                  /\ log_timezone =
                        <<timedelta(HourField(name), MinuteField(name))>>
            /\ name \notin ResolvableNames => pc = "failed"

\* The constructor has passed over a line with an offset and no marker and
\* taken the offset of the marked line after it.
C9_Witness ==
    /\ pc = "ready"
    /\ pos = 3
    /\ stream.lines[1] \in OffsetNames \ MarkedNames

\* C10: the offset of the Parser is the one the announcement denotes: the
\* minutes are combined with the sign of the hour field.
C10_MinutesTakeHourSign ==
    pc = "ready" => log_timezone = <<DenotedOffset(stream.lines[pos - 1])>>

\* -------------------------------------- claims about the header decoder

\* The text after the brackets of a header named in TrailingLines.
TrailingText(name) == Tail_(Text(name), Len(StdStamp) + 1)

ColonSpace == <<":", " ">>

\* Whether s contains ": ".
HasColonSpace(s) == Contains(s, ColonSpace)

\* The position of the first ": " in s, the end of s if it has none.
FirstColonSpace(s) ==
    IF HasColonSpace(s)
    THEN Min({p \in 1..Len(s) : OccursAt(s, ColonSpace, p)})
    ELSE Len(s) + 1

\* The text of s before its first ": " and the text after it.
BeforeColonSpace(s) == SubSeq(s, 1, FirstColonSpace(s) - 1)

AfterColonSpace(s) == Tail_(s, FirstColonSpace(s) + 2)

\* The read() calls that returned the record of the header at line i.
RecordsOf(i) == {k \in RecordCalls : results[k].hdr = i}

\* C11: the decoder splits the text after the brackets at its first ": ":
\* every header consumed whose text has a ": " has been returned as a record
\* whose category is the text before the first ": " and whose body, when
\* there is no verbosity, is all the text after it; a header is dropped only
\* when its text has no ": " at all.
C11_SplitAtFirstColonSpace ==
    \A i \in Consumed :
       stream.lines[i] \in TrailingLines =>
          /\ HasColonSpace(TrailingText(stream.lines[i])) <=> RecordsOf(i) # {}
          /\ \A k \in RecordsOf(i) :
                /\ results[k].ret.category =
                      BeforeColonSpace(TrailingText(stream.lines[i]))
                /\ results[k].ret.verbosity = "Log" =>
                      results[k].ret.log_body =
                         AfterColonSpace(TrailingText(stream.lines[i]))

\* The severities a header can name, and how each is written.
Severities == {"Warning", "Error", "Display"}

SeverityText(v) ==
    CASE v = "Warning" -> <<"W","a","r","n","i","n","g">>
      [] v = "Error"   -> <<"E","r","r","o","r">>
      [] v = "Display" -> <<"D","i","s","p","l","a","y">>

\* Whether s starts with the severity v followed by ": ", and the text of s
\* after that ": ".
StartsWithSeverity(s, v) == OccursAt(s, SeverityText(v) \o ColonSpace, 1)

AfterSeverity(s, v) == Tail_(s, Len(SeverityText(v)) + 3)

\* The text that follows the category and its ": " in the header at line i.
Remainder(i) == AfterColonSpace(TrailingText(stream.lines[i]))

\* C12: a record whose header has, right after the category and its ": ", a
\* severity keyword followed by ": " has that severity, and its body is
\* exactly the text after that ": ", be it empty or starting with a space.
C12_SeverityAndExactBody ==
    \A k \in RecordCalls :
       stream.lines[results[k].hdr] \in TrailingLines =>
          \A v \in Severities :
             (/\ HasColonSpace(TrailingText(stream.lines[results[k].hdr]))
              /\ StartsWithSeverity(Remainder(results[k].hdr), v)) =>
                /\ results[k].ret.verbosity = v
                /\ results[k].ret.log_body =
                      Joined(AfterSeverity(Remainder(results[k].hdr), v),
                             stream, results[k].hdr + 1, results[k].last)

\* Whether s starts with a severity keyword and a colon.
StartsWithKeyword(s) ==
    \E v \in Severities : OccursAt(s, SeverityText(v) \o <<":">>, 1)

\* The text that follows the category of the record of call k in its header:
\* what comes after the category, the colon and the whitespace after it.
AfterCategory(k) ==
    Tail_(TrailingText(stream.lines[results[k].hdr]),
          SpacesEnd(TrailingText(stream.lines[results[k].hdr]),
                    Len(results[k].ret.category) + 2))

\* C13: a record whose header does not have "Warning:", "Error:" or
\* "Display:" right after the category has the severity Log and the whole of
\* the text after the category as its body, and no other record has the
\* severity Log.
C13_LogOnlyByDefault ==
    \A k \in RecordCalls :
       stream.lines[results[k].hdr] \in TrailingLines =>
          /\ ~StartsWithKeyword(AfterCategory(k)) =>
                /\ results[k].ret.verbosity = "Log"
                /\ results[k].ret.log_body =
                      Joined(AfterCategory(k), stream,
                             results[k].hdr + 1, results[k].last)
          /\ results[k].ret.verbosity = "Log" =>
                ~StartsWithKeyword(AfterCategory(k))

\* ------------------------------------------- claims about whole runs

\* The position of the announcement: the first line with the marker.
AnnouncementAt == FirstIn(stream, MarkedNames)

\* The offset that construction resolves from the announcement, in minutes.
AnnouncedOffset ==
    timedelta(HourField(stream.lines[AnnouncementAt]),
              MinuteField(stream.lines[AnnouncementAt]))

\* C14: the offset of the Parser is the one resolved from the first
\* announcement for as long as the Parser lives, and every record returned
\* has that offset, the date and time of its header's fields and the
\* header's milliseconds times 1000 as microseconds; announcements met later
\* in the stream change nothing.
C14_OffsetFixedAndFieldsKept ==
    pc = "ready" =>
       /\ log_timezone = <<AnnouncedOffset>>
       /\ \A k \in RecordCalls :
             results[k].ret.date =
                ExpectedLog(stream.lines[results[k].hdr], AnnouncedOffset).date

\* A record has been returned whose header comes after a second, different
\* announcement.
C14_Witness ==
    \E k \in RecordCalls :
       \E i \in (AnnouncementAt + 1)..(results[k].hdr - 1) :
          /\ stream.lines[i] \in MarkedNames
          /\ stream.lines[i] # stream.lines[AnnouncementAt]

\* The header-shaped lines without a category separator.
NoSeparatorNames == HeaderShapedNames \ SeparatorNames

StrictShapeNames == TrailingLines

\* The lines of HdrLines with the shape
\*   [<d>.<d>.<d>-<d>.<d>.<d>:<d>][<f>]<rest>
\* from their first character on, every <d> one or more digits, <f> one or
\* more digits or whitespace characters, <rest> one or more characters.
AnyWidthShapeNames ==
    TrailingLines \cup
    {"[2020.1.2-3.4.5:6][1]Cat: x", "[20.12.14-13.46.03:809][1]Cat: x",
     "[2020.012.014-013.046.003:0809][1]Cat: x",
     "[2020.12.14-13.46.03:8090][1]Cat: x",
     "[2020.12.14-13.46.03:809][\t 1 ]Cat: x"}

\* The positions given to the header decoder by the read() calls so far.
Decoded ==
    UNION {{results[k].parsed[a] : a \in 1..Len(results[k].parsed)} :
           k \in 1..Len(results)}

\* The position of the last of the lines that follow line i of f without
\* having a name in H.
RECURSIVE LastOutside(_, _, _)
LastOutside(f, i, H) ==
    IF i < NumLines(f) /\ f.lines[i + 1] \notin H
    THEN LastOutside(f, i + 1, H) ELSE i

\* Whether the lines with a name in H, and no others, have been treated as
\* headers: of the lines consumed after the announcement exactly those were
\* given to the header decoder, and the folding of every record went on up
\* to the first of them.
TreatedAsHeaders(H) ==
    /\ \A i \in Consumed : i \in Decoded <=> stream.lines[i] \in H
    /\ \A k \in RecordCalls :
          results[k].last = LastOutside(stream, results[k].hdr, H)

\* C16 as stated: a line is treated as a header if and only if it has the
\* shape with the fixed field widths.
C16_HeaderIffFixedWidths == TreatedAsHeaders(StrictShapeNames)

\* C16 as amended: a line is treated as a header if and only if it has the
\* shape with fields of one or more digits, whatever their widths.
C16_HeaderIffAnyWidths == TreatedAsHeaders(AnyWidthShapeNames)

\* The folding of a record has been ended by a line with a one-digit month,
\* and that line has been returned as a record.
C16_Witness ==
    \E k \in RecordCalls :
       /\ stream.lines[results[k].hdr] = "[2020.1.2-3.4.5:6][1]Cat: x"
       /\ \E j \in RecordCalls : results[j].last + 1 = results[k].hdr

\* C17: successful construction leaves the file right after the first
\* announcement: the first read() starts at the line that follows it, and no
\* line at or before the announcement is given to the header decoder or is
\* the header of a record.
C17_CursorAfterAnnouncement ==
    pc = "ready" =>
       /\ results = <<>> => pos = AnnouncementAt + 1
       /\ results # <<>> => results[1].first = AnnouncementAt + 1
       /\ \A i \in Decoded : i > AnnouncementAt
       /\ \A k \in RecordCalls : results[k].hdr > AnnouncementAt

\* A well-formed header comes before the announcement, and read() has
\* returned the record of a header after it.
C17_Witness ==
    /\ pc = "ready"
    /\ \E i \in 1..(AnnouncementAt - 1) : stream.lines[i] \in WellFormedNames
    /\ RecordCalls # {}

\* read() has returned the sentinel.
SentinelReturned == \E k \in 1..Len(results) : results[k].ret = NoneValue

\* The lines after the announcement.
AfterAnnouncement == (AnnouncementAt + 1)..NumLines(stream)

\* The nearest header-shaped line at or before line i, after the
\* announcement; 0 if there is none.
NearestHeader(i) ==
    Max({0} \cup {j \in (AnnouncementAt + 1)..i :
                     stream.lines[j] \in HeaderShapedNames})

\* The read() calls whose record holds line i, as header or as continuation.
Holders(i) ==
    {k \in RecordCalls : i \in results[k].hdr .. results[k].last}

\* C18: once the sentinel has been returned every line after the
\* announcement is accounted for in one way.  A line whose nearest
\* header-shaped line (itself included) is a well-formed header is in the one
\* record of that header and in no other, as the header if it is that line
\* and as a continuation line otherwise; any other line is in no record: a
\* header-shaped line that is not decoded, and the lines between it and the
\* next header-shaped line.  The log of a record is the text of its header
\* joined with its continuation lines.
C18_EveryLineAccountedOnce ==
    (pc = "ready" /\ SentinelReturned) =>
       /\ \A i \in AfterAnnouncement :
             IF /\ NearestHeader(i) # 0
                /\ stream.lines[NearestHeader(i)] \in WellFormedNames
             THEN /\ Cardinality(Holders(i)) = 1
                  /\ Holders(i) = RecordsOf(NearestHeader(i))
             ELSE Holders(i) = {}
       /\ \A k \in RecordCalls :
             results[k].ret.log =
                Joined(ExpectedLog(stream.lines[results[k].hdr], 0).log,
                       stream, results[k].hdr + 1, results[k].last)

\* The sentinel has been returned on a stream where a record is followed by
\* a header-shaped line that is not decoded and by a line of text after it.
C18_Witness ==
    /\ pc = "ready"
    /\ SentinelReturned
    /\ \E i \in AfterAnnouncement :
          /\ stream.lines[i] \in HeaderShapedNames \ WellFormedNames
          /\ Holders(i - 1) # {}
          /\ i < NumLines(stream)
          /\ stream.lines[i + 1] \notin HeaderShapedNames

\* The header-shaped lines after the announcement.
HeadersAfterAnnouncement ==
    {i \in AfterAnnouncement : stream.lines[i] \in HeaderShapedNames}

\* C19: every read() call ends; a call that returns a record leaves the file
\* after the header of the record, which is at or after the place where the
\* call found the file; there are never more records than header-shaped
\* lines after the announcement; and read() called again and again on a
\* constructed Parser ends up returning the sentinel.
C19_ReadsEndInSentinel ==
    /\ [](\A k \in RecordCalls :
            /\ results[k].first <= results[k].hdr
            /\ results[k].hdr < results[k].pos)
    /\ [](Cardinality(RecordCalls) <= Cardinality(HeadersAfterAnnouncement))
    /\ (pc = "ready") ~> SentinelReturned

\* Three reads have returned a record each, and the fourth the sentinel.
C19_Witness ==
    /\ Len(results) = 4
    /\ RecordCalls = {1, 2, 3}
    /\ results[4].ret = NoneValue
====
